---------------------------- MODULE Spec2Model ----------------------------
(***************************************************************************)
(* A model of the GoCache repository:                                      *)
(*   - the LRU store (package LRU_Cache: New, Get, RemoveOldest, Add, Len) *)
(*   - the peer pool (HTTPPool: Set, PickPeer, ServeHTTP)                  *)
(*   - the cached value (ByteView: Len, ByteSlice, String)                 *)
(*   - the peer client (httpGetter.Get)                                    *)
(* Go strings are modelled as sequences of one-character strings, so that  *)
(* len(), indexing, prefix tests and concatenation are computed.           *)
(***************************************************************************)
EXTENDS Integers, Sequences, FiniteSets, TLC

\* ------------------------------------------------------------------ bounds
\* longest value (in bytes) handed to Add
MaxValLen == 1
\* largest capacity handed to New in the runs whose history is kept
MaxTrackedCapacity == 2
\* largest capacity handed to New
MaxCapacity == 4
\* most addresses handed to one call of Set
MaxPeers == 2
\* most calls of Set in one run
MaxSets == 2
\* longest request path after the base path
MaxSuffix == 3
\* longest buffer a ByteView is made of
MaxViewLen == 2
\* most calls of ByteSlice on one ByteView
MaxSlices == 2

\* ------------------------------------------------------------- LRU inputs
\* the keys handed to Add and Get: two of length 1 and one of length 2
Keys == {<<"a">>, <<"b">>, <<"c", "c">>}
\* the bytes a value is made of
ByteVals == {0, 1}
\* the values handed to Add: for each length up to MaxValLen, one value per byte
Values == {[i \in 1..n |-> b] : n \in 0..MaxValLen, b \in ByteVals}
\* the capacities handed to New (maxBytes is an int64: negative, zero, positive)
Capacities == (-1)..MaxCapacity
\* "no element", "no value"
NoElem == 0
NoValue == <<-1>>
NoKey == <<"-">>

VARIABLES
  \* ---- type Cache struct
  maxBytes,     \* c.maxBytes
  nbytes,       \* c.nbytes
  ll,           \* c.ll: the elements of the list, front first
  heap,         \* the *entry each live list.Element holds: element -> [key, value]
  cache,        \* c.cache: key -> element
  OnEvicted,    \* c.OnEvicted # nil
  \* ---- control
  pc,           \* "idle", or "evict": inside Add's eviction loop
  \* ---- history
  lastOp,       \* the operation called last, its arguments and its result
  evictedLog,   \* the OnEvicted calls made by the operation called last
  recency,      \* the present keys, last accessed first (reference order)
  insertOrder,  \* the present keys, first inserted first
  lastEvict     \* the last eviction of the operation called last: the key removed,
                \* and which key was then accessed longest ago and inserted first

VARIABLES
  \* ---- history of a run of Add and Get on the store
  added,        \* key -> the value of the latest Add of that key since New
  addPre        \* inside Add: the entries present when Add was called, front first

VARIABLES
  \* ---- type HTTPPool struct
  mu,           \* p.mu: the thread holding it, or NoThread
  peers,        \* p.peers: the ring, or NilRing
  httpGetters,  \* p.httpGetters: address -> httpGetter, or NilMap
  \* ---- control
  tpc,          \* per thread: its position in Set or PickPeer
  loc,          \* per thread: arguments, locals and return values of its call
  \* ---- history
  setCount,     \* the Set calls that have taken the lock so far
  gettersGen,   \* the Set call that made the current p.httpGetters
  gettersFull,  \* whether that Set call has stored all its clients
  lastDone      \* the Set call that returned last, the addresses it was given, and
                \* whether it dropped an address of the Set that returned before it

VARIABLES
  \* ---- the process-wide group registry
  groups,       \* group name -> group
  \* ---- one request to ServeHTTP
  req,          \* the request served last: r.URL.Path, and the registry it met
  resp          \* what the handler did with its http.ResponseWriter

lruVars == <<maxBytes, nbytes, ll, heap, cache, OnEvicted, pc, lastOp,
             evictedLog, recency, insertOrder, lastEvict>>
trackVars == <<added, addPre>>
poolVars == <<mu, peers, httpGetters, tpc, loc, setCount,
              gettersGen, gettersFull, lastDone>>

VARIABLES
  \* ---- memory: the byte arrays behind the slices
  bvMem,        \* array -> its bytes
  \* ---- one ByteView and its readers
  bv,           \* the ByteView: bv.b is the array its slice points to
  bvResults,    \* the arrays of the slices ByteSlice has returned, in order
  \* ---- history
  bvHeld,       \* the bytes the ByteView was made of
  bvLast        \* the method called last and what it returned

VARIABLES
  \* ---- one call of httpGetter.Get and what the network gave it
  getReq,       \* h.baseURL and the fields of in
  getURL,       \* u, the URL requested
  getNet,       \* what http.Get and the reading of the body gave
  getOut,       \* the value field of *out
  getRet        \* the error returned

srvVars == <<groups, req, resp>>

getVars == <<getReq, getURL, getNet, getOut, getRet>>

bvVars == <<bvMem, bv, bvResults, bvHeld, bvLast>>

vars == <<lruVars, trackVars, poolVars, srvVars, bvVars, getVars>>

\* ------------------------------------------------------------ list helpers
\* s without every occurrence of x
Without(s, x) == SelectSeq(s, LAMBDA y : y # x)
\* the elements of a sequence
Range(s) == {s[i] : i \in DOMAIN s}
\* the last element of a non-empty sequence
Last(s) == s[Len(s)]

\* value.Len()
ValueLen(v) == Len(v)

\* container/list: l.MoveToFront(e); no-op when e is not an element of l
MoveToFront(l, e) == IF e \in Range(l) THEN <<e>> \o Without(l, e) ELSE l
\* container/list: l.PushFront(v) allocates a new element
NewElem == CHOOSE i \in 1..(Len(ll) + Cardinality(DOMAIN cache) + 1) :
             i \notin Range(ll) /\ i \notin {cache[k] : k \in DOMAIN cache}
\* container/list: l.Back()
BackIsFront(l) == IF l = <<>> THEN NoElem ELSE Head(l)
Back(l) == IF l = <<>> THEN NoElem ELSE Last(l)
\* the elements still referenced by the list or the map (the rest is garbage)
Live(l, c) == Range(l) \cup {c[k] : k \in DOMAIN c}
Collect(h, l, c) == [e \in Live(l, c) |-> h[e]]

\* no eviction was made by the operation called last
NoEvict == [key |-> NoKey, oldest |-> NoKey, firstIn |-> NoKey]

\* ---------------------------------------------------------------- New
New(mb, cb) ==
  /\ maxBytes = mb
  /\ nbytes = 0
  /\ ll = <<>>
  /\ heap = <<>>
  /\ cache = <<>>
  /\ OnEvicted = cb
  /\ pc = "idle"
  /\ lastOp = [op |-> "New", key |-> NoKey, value |-> NoValue, ok |-> FALSE]
  /\ evictedLog = <<>>
  /\ recency = <<>>
  /\ insertOrder = <<>>
  /\ lastEvict = NoEvict

\* the history of a run that starts with New
NoHistory ==
  /\ added = <<>>
  /\ addPre = <<>>

\* ---------------------------------------------------------------- Get
\* the list after a hit on ele
GetPromoteStale(ele) == ll
GetPromoteBack(ele) == Without(ll, ele) \o <<ele>>
GetPromote(ele) == MoveToFront(ll, ele)

Get(key) ==
  /\ pc = "idle"
  /\ IF key \in DOMAIN cache
       THEN LET ele == cache[key]
                kv == heap[ele]
            IN /\ ll' = GetPromote(ele)
               /\ lastOp' = [op |-> "Get", key |-> key, value |-> kv.value, ok |-> TRUE]
               /\ recency' = <<key>> \o Without(recency, key)
       ELSE /\ ll' = ll
            /\ lastOp' = [op |-> "Get", key |-> key, value |-> NoValue, ok |-> FALSE]
            /\ recency' = recency
  /\ evictedLog' = <<>>
  /\ lastEvict' = NoEvict
  /\ UNCHANGED <<maxBytes, nbytes, heap, cache, OnEvicted, pc, insertOrder>>
  /\ UNCHANGED <<poolVars, srvVars, bvVars, getVars>>

\* ---------------------------------------------------------------- RemoveOldest
\* what RemoveOldest takes off nbytes for the entry kv
RemovedBytesNoKey(kv) == ValueLen(kv.value)
RemovedBytes(kv) == Len(kv.key) + ValueLen(kv.value)

\* the map after delete(c.cache, kv.key)
RemoveIndexKept(kv) == cache
RemoveIndex(kv) == [k \in DOMAIN cache \ {kv.key} |-> cache[k]]

\* the calls of OnEvicted so far, after RemoveOldest removed the entry kv:
\* if c.OnEvicted != nil { c.OnEvicted(kv.key, kv.value) }
EvictedCallNone(log, kv) == log
EvictedCall(log, kv) == IF OnEvicted THEN Append(log, kv) ELSE log

\* the body of RemoveOldest; log and ev hold the OnEvicted calls and the last
\* eviction made so far by the operation in progress
RemoveOldest(log, ev) ==
  LET ele == Back(ll) IN
  IF ele # NoElem
    THEN LET kv == heap[ele]
             l2 == Without(ll, ele)
             c2 == RemoveIndex(kv)
         IN /\ ll' = l2
            /\ cache' = c2
            /\ heap' = Collect(heap, l2, c2)
            /\ nbytes' = nbytes - RemovedBytes(kv)
            /\ evictedLog' = EvictedCall(log, kv)
            /\ lastEvict' = [key |-> kv.key,
                             oldest |-> IF recency = <<>> THEN NoKey ELSE Last(recency),
                             firstIn |-> IF insertOrder = <<>> THEN NoKey
                                         ELSE Head(insertOrder)]
            /\ recency' = Without(recency, kv.key)
            /\ insertOrder' = Without(insertOrder, kv.key)
    ELSE /\ evictedLog' = log
         /\ lastEvict' = ev
         /\ UNCHANGED <<ll, cache, heap, nbytes, recency, insertOrder>>

\* a call of c.RemoveOldest() by the user of the store
CallRemoveOldest ==
  /\ pc = "idle"
  /\ RemoveOldest(<<>>, NoEvict)
  /\ lastOp' = [op |-> "RemoveOldest", key |-> NoKey, value |-> NoValue, ok |-> FALSE]
  /\ UNCHANGED <<maxBytes, OnEvicted, pc>>
  /\ UNCHANGED <<poolVars, srvVars, bvVars, getVars>>

\* ---------------------------------------------------------------- Add
\* nbytes after Add replaced the value of an existing entry kv by value
UpdatedBytesAsInsert(kv, value) == nbytes + Len(kv.key) + ValueLen(value)
UpdatedBytes(kv, value) == nbytes + ValueLen(value) - ValueLen(kv.value)
\* nbytes after Add inserted a new entry
InsertedBytes(key, value) == nbytes + Len(key) + ValueLen(value)

\* Add up to its eviction loop: update in place, or insert at the front
AddBegin(key, value) ==
  /\ pc = "idle"
  /\ IF key \in DOMAIN cache
       THEN LET ele == cache[key]
                kv == heap[ele]
            IN /\ ll' = MoveToFront(ll, ele)
               /\ nbytes' = UpdatedBytes(kv, value)
               /\ heap' = [heap EXCEPT ![ele].value = value]
               /\ cache' = cache
               /\ insertOrder' = insertOrder
       ELSE LET ele == NewElem
            IN /\ ll' = <<ele>> \o ll
               /\ heap' = [e \in DOMAIN heap \cup {ele} |->
                             IF e = ele THEN [key |-> key, value |-> value] ELSE heap[e]]
               /\ cache' = [k \in DOMAIN cache \cup {key} |->
                              IF k = key THEN ele ELSE cache[k]]
               /\ nbytes' = InsertedBytes(key, value)
               /\ insertOrder' = Append(Without(insertOrder, key), key)
  /\ recency' = <<key>> \o Without(recency, key)
  /\ pc' = "evict"
  /\ lastOp' = [op |-> "Add", key |-> key, value |-> value, ok |-> FALSE]
  /\ evictedLog' = <<>>
  /\ lastEvict' = NoEvict
  /\ UNCHANGED <<maxBytes, OnEvicted>>
  /\ UNCHANGED <<poolVars, srvVars, bvVars, getVars>>

\* the condition of Add's eviction loop
LoopCondOffByOne == maxBytes # 0 /\ maxBytes < nbytes - 1
LoopCondZeroBounds == maxBytes < nbytes
LoopCondNonEmpty == maxBytes # 0 /\ maxBytes < nbytes /\ Len(ll) > 1
LoopCond == maxBytes # 0 /\ maxBytes < nbytes

\* one iteration of the loop: c.RemoveOldest()
AddEvict ==
  /\ pc = "evict"
  /\ LoopCond
  /\ RemoveOldest(evictedLog, lastEvict)
  /\ UNCHANGED <<maxBytes, OnEvicted, pc, lastOp>>
  /\ UNCHANGED <<poolVars, srvVars, bvVars, getVars>>

\* the loop condition is false: Add returns
AddReturn ==
  /\ pc = "evict"
  /\ ~LoopCond
  /\ pc' = "idle"
  /\ UNCHANGED <<maxBytes, nbytes, ll, heap, cache, OnEvicted, lastOp,
                 evictedLog, recency, insertOrder, lastEvict>>
  /\ UNCHANGED <<poolVars, srvVars, bvVars, getVars>>

\* c.Len()
CacheLen == Len(ll)

\* ================================================================ HTTPPool
\* ------------------------------------------------------------ pool inputs
\* const defultBasePath = "/_gocache/"
defultBasePath == <<"/", "_", "g", "o", "c", "a", "c", "h", "e", "/">>
\* const defaultReplicas
defaultReplicas == 50
\* the address handed to NewHTTPPool, and the other addresses handed to Set
Self == <<"s">>
Addrs == {Self, <<"A">>, <<"B">>}
\* the argument lists handed to Set
PeerLists == UNION {[1..n -> Addrs] : n \in 0..MaxPeers}
\* the keys handed to PickPeer
PickKeys == {<<"k", "1">>, <<"k", "2">>, <<"x">>}
\* the threads calling Set and PickPeer
Threads == {"t1", "t2"}
NoThread == "none"
\* a nil *httpGetter
NilGetter == [nil |-> TRUE, baseURL |-> <<>>]
\* a nil map[string]*httpGetter
NilMap == [nil |-> TRUE, m |-> <<>>]

\* ------------------------------------------------------------ consistenthash
\* the characters of the strings hashed, in the order of their codes
HashChars == <<"0", "1", "2", "3", "4", "5", "6", "7", "8", "9",
               "A", "B", "k", "s", "x">>
CharCode(c) == CHOOSE i \in DOMAIN HashChars : HashChars[i] = c
\* the hash values
HashSpace == 4093
\* the hash of a string (stands for the ring's default 32-bit hash)
RECURSIVE HashFrom(_, _)
HashFrom(h, str) ==
  IF str = <<>> THEN h
  ELSE HashFrom((h * 131 + CharCode(Head(str)) * 37 + 11) % HashSpace, Tail(str))
Hash(str) == HashFrom(7, str)
\* strconv.Itoa(i), for 0 <= i < 100
Itoa(i) ==
  IF i < 10 THEN <<HashChars[i + 1]>>
  ELSE <<HashChars[(i \div 10) + 1], HashChars[(i % 10) + 1]>>

\* consistenthash.New(replicas, nil): an empty ring
RingNew(replicas) == [replicas |-> replicas, keys |-> {}, hashMap |-> <<>>]
\* the replicas i, i+1, ... of one node: the virtual key hash(strconv.Itoa(i) +
\* node) joins the sorted keys and maps to the node (overwriting an equal key)
RECURSIVE RingAddNode(_, _, _)
RingAddNode(m, node, i) ==
  IF i >= m.replicas THEN m
  ELSE LET h == Hash(Itoa(i) \o node)
       IN RingAddNode([replicas |-> m.replicas,
                       keys |-> m.keys \cup {h},
                       hashMap |-> [k \in DOMAIN m.hashMap \cup {h} |->
                                      IF k = h THEN node ELSE m.hashMap[k]]],
                      node, i + 1)
\* m.Add(nodes...)
RECURSIVE RingAdd(_, _)
RingAdd(m, nodes) ==
  IF nodes = <<>> THEN m
  ELSE RingAdd(RingAddNode(m, Head(nodes), 0), Tail(nodes))
\* m.Get(key): the node of the first virtual key >= hash(key), wrapping to the
\* smallest; "" when the ring has no nodes
RingGet(m, key) ==
  IF m.keys = {} THEN <<>>
  ELSE LET h == Hash(key)
           ge == {k \in m.keys : k >= h}
           pick(S) == CHOOSE k \in S : \A k2 \in S : k <= k2
       IN m.hashMap[IF ge = {} THEN pick(m.keys) ELSE pick(ge)]
\* the nodes of a ring
RingNodes(m) == {m.hashMap[h] : h \in DOMAIN m.hashMap}

\* a nil *consistenthash.Map
NilRing == [nil |-> TRUE, ring |-> RingNew(0), gen |-> 0]

\* ------------------------------------------------------------ NewHTTPPool
\* no Set call has returned
NoSet == [gen |-> 0, args |-> <<>>, dropped |-> FALSE]
\* the locals of a thread that is in no call
NoCall == [op |-> "none", args |-> <<>>, key |-> <<>>, i |-> 0, gen |-> 0,
           peer |-> <<>>, client |-> NilGetter, found |-> FALSE, panicked |-> FALSE,
           sawRing |-> 0, sawMap |-> 0, sawFull |-> FALSE, doneAtLock |-> NoSet]

NewHTTPPool ==
  /\ mu = NoThread
  /\ peers = NilRing
  /\ httpGetters = NilMap
  /\ tpc = [t \in Threads |-> "idle"]
  /\ loc = [t \in Threads |-> NoCall]
  /\ setCount = 0
  /\ gettersGen = 0
  /\ gettersFull = FALSE
  /\ lastDone = NoSet

\* ------------------------------------------------------------ Set
\* p.mu.Lock() of Set
SetLock(t, ps) ==
  /\ tpc[t] = "idle"
  /\ setCount < MaxSets
  /\ mu = NoThread
  /\ mu' = t
  /\ setCount' = setCount + 1
  /\ loc' = [loc EXCEPT ![t] = [NoCall EXCEPT !.op = "Set", !.args = ps,
                                              !.gen = setCount + 1]]
  /\ tpc' = [tpc EXCEPT ![t] = "set_new"]
  /\ UNCHANGED <<peers, httpGetters, gettersGen, gettersFull, lastDone>>

\* p.peers = consistenthash.New(defaultReplicas, nil)
SetNewRing(t) == [nil |-> FALSE, ring |-> RingNew(defaultReplicas), gen |-> loc[t].gen]

SetNew(t) ==
  /\ tpc[t] = "set_new"
  /\ peers' = SetNewRing(t)
  /\ tpc' = [tpc EXCEPT ![t] = "set_add"]
  /\ UNCHANGED <<mu, httpGetters, loc, setCount, gettersGen, gettersFull, lastDone>>

\* p.peers.Add(peers...)
SetAdd(t) ==
  /\ tpc[t] = "set_add"
  /\ peers' = [peers EXCEPT !.ring = RingAdd(peers.ring, loc[t].args)]
  /\ tpc' = [tpc EXCEPT ![t] = "set_make"]
  /\ UNCHANGED <<mu, httpGetters, loc, setCount, gettersGen, gettersFull, lastDone>>

\* p.httpGetters = make(map[string]*httpGetter, len(peers))
SetMakeMapKeepOld == IF httpGetters.nil THEN [nil |-> FALSE, m |-> <<>>] ELSE httpGetters
SetMakeMap == [nil |-> FALSE, m |-> <<>>]

SetMake(t) ==
  /\ tpc[t] = "set_make"
  /\ httpGetters' = SetMakeMap
  /\ gettersGen' = loc[t].gen
  /\ gettersFull' = (loc[t].args = <<>>)
  /\ loc' = [loc EXCEPT ![t].i = 1]
  /\ tpc' = [tpc EXCEPT ![t] = IF loc[t].args = <<>> THEN "set_unlock" ELSE "set_loop"]
  /\ UNCHANGED <<mu, peers, setCount, lastDone>>

\* &httpGetter{baseURL: peer + p.basePath}
NewGetter(peer) == [nil |-> FALSE, baseURL |-> peer \o defultBasePath]

\* one iteration of: for _, peer := range peers { p.httpGetters[peer] = ... }
SetLoop(t) ==
  /\ tpc[t] = "set_loop"
  /\ LET i == loc[t].i
         peer == loc[t].args[i]
         last == i = Len(loc[t].args)
     IN /\ httpGetters' = [httpGetters EXCEPT !.m =
                             [a \in DOMAIN httpGetters.m \cup {peer} |->
                                IF a = peer THEN NewGetter(peer) ELSE httpGetters.m[a]]]
        /\ gettersFull' = last
        /\ loc' = [loc EXCEPT ![t].i = i + 1]
        /\ tpc' = [tpc EXCEPT ![t] = IF last THEN "set_unlock" ELSE "set_loop"]
  /\ UNCHANGED <<mu, peers, setCount, gettersGen, lastDone>>

\* defer p.mu.Unlock() of Set, and its return
SetUnlock(t) ==
  /\ tpc[t] = "set_unlock"
  /\ mu' = NoThread
  /\ lastDone' = [gen |-> loc[t].gen, args |-> loc[t].args,
                   dropped |-> Range(lastDone.args) \ Range(loc[t].args) # {}]
  /\ loc' = [loc EXCEPT ![t] = NoCall]
  /\ tpc' = [tpc EXCEPT ![t] = "idle"]
  /\ UNCHANGED <<peers, httpGetters, setCount, gettersGen, gettersFull>>

\* ------------------------------------------------------------ PickPeer
\* whether p.mu lets PickPeer in
PickPeerMayLockAlways == TRUE
PickPeerMayLock == mu = NoThread

\* p.mu.Lock() of PickPeer
PickPeerLock(t, key) ==
  /\ tpc[t] = "idle"
  /\ PickPeerMayLock
  /\ mu' = t
  /\ loc' = [loc EXCEPT ![t] = [NoCall EXCEPT !.op = "PickPeer", !.key = key,
                                              !.doneAtLock = lastDone]]
  /\ tpc' = [tpc EXCEPT ![t] = "pp_get"]
  /\ UNCHANGED <<peers, httpGetters, setCount, gettersGen, gettersFull, lastDone>>

\* peer := p.peers.Get(key); a nil p.peers is dereferenced by Get: a panic
PickPeerGet(t) ==
  /\ tpc[t] = "pp_get"
  /\ IF peers.nil
       THEN /\ loc' = [loc EXCEPT ![t].panicked = TRUE]
            /\ tpc' = [tpc EXCEPT ![t] = "pp_unlock"]
       ELSE /\ loc' = [loc EXCEPT ![t].peer = RingGet(peers.ring, loc[t].key),
                                  ![t].sawRing = peers.gen]
            /\ tpc' = [tpc EXCEPT ![t] = "pp_pick"]
  /\ UNCHANGED <<mu, peers, httpGetters, setCount, gettersGen, gettersFull, lastDone>>

\* peer != "" && peer != p.self
IsRemoteSelfToo(peer) == peer # <<>>
IsRemote(peer) == peer # <<>> /\ peer # Self

\* return p.httpGetters[peer], true  or  return nil, false
PickPeerPick(t) ==
  /\ tpc[t] = "pp_pick"
  /\ LET peer == loc[t].peer IN
     IF IsRemote(peer)
       THEN loc' = [loc EXCEPT
                      ![t].client = IF peer \in DOMAIN httpGetters.m
                                      THEN httpGetters.m[peer] ELSE NilGetter,
                      ![t].found = TRUE,
                      ![t].sawMap = gettersGen,
                      ![t].sawFull = gettersFull]
       ELSE loc' = [loc EXCEPT ![t].client = NilGetter, ![t].found = FALSE]
  /\ tpc' = [tpc EXCEPT ![t] = "pp_unlock"]
  /\ UNCHANGED <<mu, peers, httpGetters, setCount, gettersGen, gettersFull, lastDone>>

\* defer p.mu.Unlock() of PickPeer, and its return (or the panic going up)
PickPeerUnlock(t) ==
  /\ tpc[t] = "pp_unlock"
  /\ mu' = NoThread
  /\ loc' = [loc EXCEPT ![t] = NoCall]
  /\ tpc' = [tpc EXCEPT ![t] = "idle"]
  /\ UNCHANGED <<peers, httpGetters, setCount, gettersGen, gettersFull, lastDone>>

\* ================================================================ ServeHTTP
\* ------------------------------------------------------------ request inputs
\* the characters of request paths after the base path
PathChars == {"/", "g", "k"}
\* what follows the base path in a request
Suffixes == UNION {[1..n -> PathChars] : n \in 0..MaxSuffix}
\* the request paths: under the base path, and one outside it
Paths == {defultBasePath \o sfx : sfx \in Suffixes} \cup {<<"/", "x">>}
\* the names groups are created with
GroupNames == {<<>>, <<"g">>}
\* the keys a group's loader has a value for
LoaderKeys == {<<"k">>}

\* http.StatusOK, http.StatusBadRequest, http.StatusNotFound,
\* http.StatusInternalServerError
StatusOK == 200
StatusBadRequest == 400
StatusNotFound == 404
StatusInternalServerError == 500

\* ------------------------------------------------------------ ByteView
\* cloneBytes(b): a new slice with the bytes of b
cloneBytes(b) == [i \in 1..Len(b) |-> b[i]]
\* v.ByteSlice()
ByteSlice(v) == cloneBytes(v.b)
\* the zero ByteView
ZeroView == [b |-> <<>>]

\* ------------------------------------------------------------ groups
\* GetGroup(name): the group registered under name, or nil
NilGroup == [nil |-> TRUE, name |-> <<>>, db |-> {}]
GetGroup(name) == IF name \in DOMAIN groups THEN groups[name] ELSE NilGroup
\* group.Get(key): an error for the empty key and for a key the loader has no
\* value for, else the loaded value
GroupGet(group, key) ==
  IF key = <<>> THEN [err |-> <<"key is required">>, view |-> ZeroView]
  ELSE IF key \notin group.db THEN [err |-> <<"not exist:">> \o key, view |-> ZeroView]
  ELSE [err |-> <<>>, view |-> [b |-> key \o <<"-", "v">>]]

\* NewGroup(name, ...): registers a group
NewGroup(name, db) ==
  /\ name \notin DOMAIN groups
  /\ groups' = [n \in DOMAIN groups \cup {name} |->
                  IF n = name THEN [nil |-> FALSE, name |-> name, db |-> db]
                  ELSE groups[n]]
  /\ UNCHANGED <<req, resp>>

\* ------------------------------------------------------------ net/http, strings, proto
\* strings.HasPrefix(s, prefix)
HasPrefix(s, prefix) ==
  Len(s) >= Len(prefix) /\ SubSeq(s, 1, Len(prefix)) = prefix
\* strings.SplitN(s, "/", 2)
SplitN(s) ==
  LET at == {i \in DOMAIN s : s[i] = "/"} IN
  IF at = {} THEN <<s>>
  ELSE LET i == CHOOSE i \in at : \A j \in at : i <= j
       IN <<SubSeq(s, 1, i - 1), SubSeq(s, i + 1, Len(s))>>
\* proto.Marshal(&pb.Response{Value: value}): the message with its field tag
Marshal(value) == <<"pb.Response.value=">> \o value

\* a ResponseWriter nothing was written to; status 0: no header written yet
NewWriter == [status |-> 0, contentType |-> "", body |-> <<>>]
\* w.Write(data): writes the header with 200 first when none was written
Write(w, data) ==
  [w EXCEPT !.status = IF w.status = 0 THEN StatusOK ELSE w.status,
            !.body = Append(w.body, data)]
\* w.Header().Set("Content-Type", ct): no effect once the header is written
SetContentType(w, ct) ==
  IF w.status = 0 THEN [w EXCEPT !.contentType = ct] ELSE w
\* http.Error(w, msg, code)
Error(w, msg, code) ==
  LET h == SetContentType(w, "text/plain; charset=utf-8")
  IN [h EXCEPT !.status = IF h.status = 0 THEN code ELSE h.status,
               !.body = Append(h.body, msg)]

\* ------------------------------------------------------------ ServeHTTP
\* what a call of the handler did: the writer, whether it panicked, and the
\* group name and key it looked up
Outcome(w, panicked, lookedGroup, groupName, lookedKey, key) ==
  [w |-> w, panicked |-> panicked, lookedGroup |-> lookedGroup,
   groupName |-> groupName, lookedKey |-> lookedKey, key |-> key]

\* the argument of strings.SplitN in ServeHTTP
SplitArg(path) == <<path[Len(defultBasePath) + 1]>>

ServeHTTP(path) ==
  LET w == NewWriter IN
  IF ~HasPrefix(path, defultBasePath)
    THEN Outcome(w, FALSE, FALSE, <<>>, FALSE, <<>>)
  ELSE IF Len(path) <= Len(defultBasePath)
    \* r.URL.Path[len(p.basePath)]: index out of range
    THEN Outcome(w, TRUE, FALSE, <<>>, FALSE, <<>>)
  ELSE LET parts == SplitN(SplitArg(path)) IN
  IF Len(parts) # 2
    THEN Outcome(Error(w, <<"bad request">>, StatusBadRequest),
                 FALSE, FALSE, <<>>, FALSE, <<>>)
  ELSE LET groupName == parts[1]
           key == parts[2]
           group == GetGroup(groupName)
       IN
  IF group.nil
    THEN Outcome(Error(w, <<"no such group:">> \o groupName, StatusNotFound),
                 FALSE, TRUE, groupName, FALSE, <<>>)
  ELSE LET got == GroupGet(group, key)
           w1 == IF got.err # <<>>
                   THEN Error(w, got.err, StatusInternalServerError)
                   ELSE w
           body == Marshal(ByteSlice(got.view))
           w2 == SetContentType(w1, "application/octet-stream")
       IN Outcome(Write(w2, body), FALSE, TRUE, groupName, TRUE, key)

\* no request was served yet
NoRequest ==
  /\ groups = <<>>
  /\ req = [path |-> <<>>, groups |-> <<>>]
  /\ resp = Outcome(NewWriter, FALSE, FALSE, <<>>, FALSE, <<>>)

\* one request handled by p.ServeHTTP
Serve(path) ==
  /\ req' = [path |-> path, groups |-> groups]
  /\ resp' = ServeHTTP(path)
  /\ UNCHANGED groups

\* ================================================================ ByteView in memory
\* the buffers a ByteView is made of
Buffers == UNION {[1..n -> ByteVals] : n \in 0..MaxViewLen}
\* the characters of string(b), one per byte value
ByteChars == <<"\\x00", "\\x01">>

\* ByteView{b: b} with b the only slice of its array
NewByteView(b) ==
  /\ bvMem = <<b>>
  /\ bv = [b |-> 1]
  /\ bvResults = <<>>
  /\ bvHeld = b
  /\ bvLast = [op |-> "new", len |-> 0, str |-> <<>>, slice |-> <<>>]

\* cloneBytes: c := make([]byte, len(b)), the array of c
MakeShared(b) == b
Make(b) == Len(bvMem) + 1
\* cloneBytes: the memory after copy(c, b)
Copy(c, b) ==
  [a \in DOMAIN bvMem \cup {c} |-> IF a = c THEN cloneBytes(bvMem[b]) ELSE bvMem[a]]

\* v.Len()
ViewLen ==
  /\ bvLast' = [op |-> "Len", len |-> Len(bvMem[bv.b]), str |-> <<>>, slice |-> <<>>]
  /\ UNCHANGED <<bvMem, bv, bvResults, bvHeld>>

\* string(b)
StringOf(b) == [i \in 1..Len(b) |-> ByteChars[b[i] + 1]]
\* v.String()
ViewString ==
  /\ bvLast' = [op |-> "String", len |-> 0, str |-> StringOf(bvMem[bv.b]),
                slice |-> <<>>]
  /\ UNCHANGED <<bvMem, bv, bvResults, bvHeld>>

\* v.ByteSlice(): return cloneBytes(v.b)
ViewByteSlice ==
  /\ Len(bvResults) < MaxSlices
  /\ LET c == Make(bv.b)
         mem == Copy(c, bv.b)
     IN /\ bvMem' = mem
        /\ bvResults' = Append(bvResults, c)
        /\ bvLast' = [op |-> "ByteSlice", len |-> 0, str |-> <<>>, slice |-> mem[c]]
  /\ UNCHANGED <<bv, bvHeld>>

\* a reader writes x at index j of the i-th slice it got from ByteSlice
WriteSlice(i, j, x) ==
  /\ i \in DOMAIN bvResults
  /\ j \in DOMAIN bvMem[bvResults[i]]
  /\ bvMem' = [bvMem EXCEPT ![bvResults[i]][j] = x]
  /\ bvLast' = [op |-> "write", len |-> 0, str |-> <<>>, slice |-> <<>>]
  /\ UNCHANGED <<bv, bvResults, bvHeld>>

\* ================================================================ httpGetter.Get
\* the clients Set makes for the remote addresses
Getters == {NewGetter(peer) : peer \in Addrs \ {Self}}
\* in.GetGroup() and in.GetKey()
ReqGroups == {<<"g">>, <<"g", "/">>}
ReqKeys == {<<"k">>, <<"k", " ">>, <<"/">>}
\* res.StatusCode
Statuses == {StatusOK, StatusBadRequest, StatusNotFound, StatusInternalServerError}
\* the bodies a server sends: serialized messages, and bytes that are none
Bodies == {Marshal(<<>>), Marshal(<<1>>), <<"not a message">>}
\* what the network gives: http.Get fails, or a response comes with a status
\* and a body that can be read to its end or not
NoResponse == [err |-> TRUE, status |-> 0, readErr |-> FALSE, body |-> <<>>]
Responses ==
  {NoResponse} \cup
  {[err |-> FALSE, status |-> st, readErr |-> re, body |-> b] :
     st \in Statuses, re \in BOOLEAN, b \in Bodies}

\* a nil error, and fmt.Errorf(text)
NilError == [nil |-> TRUE, text |-> <<>>]
Errorf(text) == [nil |-> FALSE, text |-> text]

\* url.QueryEscape(str): "/" becomes "%2F" and " " becomes "+"
RECURSIVE QueryEscape(_)
QueryEscape(str) ==
  IF str = <<>> THEN <<>>
  ELSE (CASE Head(str) = "/" -> <<"%", "2", "F">>
          [] Head(str) = " " -> <<"+">>
          [] OTHER -> <<Head(str)>>) \o QueryEscape(Tail(str))

\* proto.Unmarshal(bytes, out): the error, and the value field out is left with
Unmarshal(bytes) ==
  IF bytes # <<>> /\ Head(bytes) = Head(Marshal(<<>>))
    THEN [err |-> NilError, value |-> Tail(bytes)]
    ELSE [err |-> Errorf(<<"proto: cannot parse">>), value |-> <<>>]

\* no call of Get yet
NoGet ==
  /\ getReq = [baseURL |-> <<>>, group |-> <<>>, key |-> <<>>]
  /\ getURL = <<>>
  /\ getNet = NoResponse
  /\ getOut = <<>>
  /\ getRet = [called |-> FALSE, err |-> NilError]

\* if res.StatusCode != http.StatusOK
StatusFailsNever(res) == FALSE
StatusFails(res) == res.status # StatusOK

\* h.Get(in, out), with res what the network gives for the request
GetterGet(h, group, key, res) ==
  LET u == h.baseURL \o QueryEscape(group) \o <<"/">> \o QueryEscape(key)
      dec == Unmarshal(res.body)
  IN /\ getReq' = [baseURL |-> h.baseURL, group |-> group, key |-> key]
     /\ getURL' = u
     /\ getNet' = res
     /\ IF res.err
          THEN /\ getRet' = [called |-> TRUE, err |-> Errorf(<<"Get ">> \o u)]
               /\ getOut' = getOut
          ELSE IF StatusFails(res)
          THEN /\ getRet' = [called |-> TRUE,
                             err |-> Errorf(<<"server returned:", res.status>>)]
               /\ getOut' = getOut
          ELSE IF res.readErr
          THEN /\ getRet' = [called |-> TRUE,
                             err |-> Errorf(<<"reading response body:">>)]
               /\ getOut' = getOut
          ELSE IF ~dec.err.nil
          THEN /\ getRet' = [called |-> TRUE,
                             err |-> Errorf(<<"decoding response body: ">> \o dec.err.text)]
               /\ getOut' = dec.value
          ELSE /\ getRet' = [called |-> TRUE, err |-> NilError]
               /\ getOut' = dec.value

\* ================================================================ specifications
\* ---------------------------------------------------------------- the store
LRUInit ==
  /\ \E mb \in Capacities, cb \in BOOLEAN : New(mb, cb)
  /\ NoHistory
  /\ NewHTTPPool
  /\ NoRequest
  /\ NewByteView(<<>>)
  /\ NoGet

LRUNext ==
  \/ \E key \in Keys : Get(key) /\ UNCHANGED trackVars
  \/ CallRemoveOldest /\ UNCHANGED trackVars
  \/ \E key \in Keys, value \in Values : AddBegin(key, value) /\ UNCHANGED trackVars
  \/ AddEvict /\ UNCHANGED trackVars
  \/ AddReturn /\ UNCHANGED trackVars

LRUSpec == LRUInit /\ [][LRUNext]_vars

\* ------------------------------------------- the store, with its history
\* runs of Add and Get on stores of the capacities 0..MaxTrackedCapacity, with
\* the history of the run kept
TrackedCapacities == 0..MaxTrackedCapacity

TrackedInit ==
  /\ \E mb \in TrackedCapacities, cb \in BOOLEAN : New(mb, cb)
  /\ NoHistory
  /\ NewHTTPPool
  /\ NoRequest
  /\ NewByteView(<<>>)
  /\ NoGet

TrackedGet(key) == Get(key) /\ UNCHANGED trackVars

TrackedAddBegin(key, value) ==
  /\ AddBegin(key, value)
  /\ added' = [k \in DOMAIN added \cup {key} |-> IF k = key THEN value ELSE added[k]]
  /\ addPre' = [i \in 1..Len(ll) |-> heap[ll[i]]]

TrackedAddEvict == AddEvict /\ UNCHANGED trackVars

TrackedAddReturn ==
  /\ AddReturn
  /\ addPre' = <<>>
  /\ UNCHANGED added

TrackedNext ==
  \/ \E key \in Keys : TrackedGet(key)
  \/ \E key \in Keys, value \in Values : TrackedAddBegin(key, value)
  \/ TrackedAddEvict
  \/ TrackedAddReturn

TrackedSpec == TrackedInit /\ [][TrackedNext]_vars

\* ------------------------------------------------------------ the pool
PoolInit ==
  /\ New(0, FALSE)
  /\ NoHistory
  /\ NewHTTPPool
  /\ NoRequest
  /\ NewByteView(<<>>)
  /\ NoGet

PoolNext ==
  \/ \E t \in Threads, ps \in PeerLists : SetLock(t, ps) /\ UNCHANGED <<lruVars, trackVars, srvVars, bvVars, getVars>>
  \/ \E t \in Threads : SetNew(t) /\ UNCHANGED <<lruVars, trackVars, srvVars, bvVars, getVars>>
  \/ \E t \in Threads : SetAdd(t) /\ UNCHANGED <<lruVars, trackVars, srvVars, bvVars, getVars>>
  \/ \E t \in Threads : SetMake(t) /\ UNCHANGED <<lruVars, trackVars, srvVars, bvVars, getVars>>
  \/ \E t \in Threads : SetLoop(t) /\ UNCHANGED <<lruVars, trackVars, srvVars, bvVars, getVars>>
  \/ \E t \in Threads : SetUnlock(t) /\ UNCHANGED <<lruVars, trackVars, srvVars, bvVars, getVars>>
  \/ \E t \in Threads, key \in PickKeys : PickPeerLock(t, key) /\ UNCHANGED <<lruVars, trackVars, srvVars, bvVars, getVars>>
  \/ \E t \in Threads : PickPeerGet(t) /\ UNCHANGED <<lruVars, trackVars, srvVars, bvVars, getVars>>
  \/ \E t \in Threads : PickPeerPick(t) /\ UNCHANGED <<lruVars, trackVars, srvVars, bvVars, getVars>>
  \/ \E t \in Threads : PickPeerUnlock(t) /\ UNCHANGED <<lruVars, trackVars, srvVars, bvVars, getVars>>

PoolSpec == PoolInit /\ [][PoolNext]_vars

ServeInit ==
  /\ New(0, FALSE)
  /\ NoHistory
  /\ NewHTTPPool
  /\ NoRequest
  /\ NewByteView(<<>>)
  /\ NoGet

ServeNext ==
  \/ \E name \in GroupNames, db \in SUBSET LoaderKeys :
       NewGroup(name, db) /\ UNCHANGED <<lruVars, trackVars, poolVars, bvVars, getVars>>
  \/ \E path \in Paths : Serve(path) /\ UNCHANGED <<lruVars, trackVars, poolVars, bvVars, getVars>>

ServeSpec == ServeInit /\ [][ServeNext]_vars

\* ------------------------------------------------------------ a ByteView
ByteViewInit ==
  /\ New(0, FALSE)
  /\ NoHistory
  /\ NewHTTPPool
  /\ NoRequest
  /\ \E b \in Buffers : NewByteView(b)
  /\ NoGet

ByteViewNext ==
  \/ ViewLen /\ UNCHANGED <<lruVars, trackVars, poolVars, srvVars, getVars>>
  \/ ViewString /\ UNCHANGED <<lruVars, trackVars, poolVars, srvVars, getVars>>
  \/ ViewByteSlice /\ UNCHANGED <<lruVars, trackVars, poolVars, srvVars, getVars>>
  \/ \E i \in 1..MaxSlices, j \in 1..MaxViewLen, x \in ByteVals :
       WriteSlice(i, j, x) /\ UNCHANGED <<lruVars, trackVars, poolVars, srvVars, getVars>>

ByteViewSpec == ByteViewInit /\ [][ByteViewNext]_vars

\* ------------------------------------------------------------ a peer client
GetterInit ==
  /\ New(0, FALSE)
  /\ NoHistory
  /\ NewHTTPPool
  /\ NoRequest
  /\ NewByteView(<<>>)
  /\ NoGet

GetterNext ==
  \E h \in Getters, group \in ReqGroups, key \in ReqKeys, res \in Responses :
    GetterGet(h, group, key, res) /\ UNCHANGED <<lruVars, trackVars, poolVars, srvVars, bvVars>>

GetterSpec == GetterInit /\ [][GetterNext]_vars

\* ================================================================ claims, LRU store

\* len(key) + value.Len() summed over the entries of the list l
RECURSIVE SumBytes(_)
SumBytes(l) ==
  IF l = <<>> THEN 0
  ELSE Len(heap[Head(l)].key) + ValueLen(heap[Head(l)].value) + SumBytes(Tail(l))

\* C1: in every reachable state of the store, nbytes equals the sum of
\* len(key) + value.Len() over exactly the entries present.
C1_ByteAccounting == nbytes = SumBytes(ll)

\* C1 witness: a RemoveOldest has removed an entry and left others, after
\* Adds that gave the store more than one entry.
C1_Witness ==
  /\ lastOp.op = "RemoveOldest"
  /\ lastEvict # NoEvict
  /\ Len(ll) >= 1
  /\ nbytes > 0

\* C2: with maxBytes > 0, in the state each completed Add leaves,
\* nbytes <= maxBytes.
C2_Bounded ==
  (maxBytes > 0 /\ pc = "idle" /\ lastOp.op = "Add") => nbytes <= maxBytes

\* C2 witness: an Add on a bounded store has completed after evicting an entry
\* and the store is still in use.
C2_Witness ==
  /\ maxBytes > 0
  /\ pc = "idle"
  /\ lastOp.op = "Add"
  /\ lastEvict # NoEvict
  /\ nbytes > 0

\* C3: every eviction, by Add's loop or by RemoveOldest, removes the present
\* entry whose last access (insert, update or Get hit) is the oldest.
C3_EvictsLeastRecent == lastEvict # NoEvict => lastEvict.key = lastEvict.oldest

\* C3 witness: Add(A), Add(B), an access to A, Add(C) with room for two: the
\* Add of C has evicted B, which was not the entry inserted first, and A and C
\* are present.
C3_Witness ==
  /\ pc = "idle"
  /\ lastOp.op = "Add"
  /\ lastOp.key = <<"c", "c">>
  /\ lastEvict.key = <<"b">>
  /\ lastEvict.firstIn = <<"a">>
  /\ DOMAIN cache = {<<"a">>, <<"c", "c">>}

\* C4: the map and the list describe the same entries: each map key points to
\* one list element holding that key, each list element's key is in the map
\* and points back to it, no key is twice in the list, Len() is the number of
\* map keys.
C4_IndexListConsistent ==
  /\ \A k \in DOMAIN cache :
       /\ Cardinality({i \in DOMAIN ll : ll[i] = cache[k]}) = 1
       /\ heap[cache[k]].key = k
  /\ \A i \in DOMAIN ll :
       /\ heap[ll[i]].key \in DOMAIN cache
       /\ cache[heap[ll[i]].key] = ll[i]
  /\ \A i, j \in DOMAIN ll : i # j => heap[ll[i]].key # heap[ll[j]].key
  /\ CacheLen = Cardinality(DOMAIN cache)

\* C4 witness: an eviction has happened and two entries are present.
C4_Witness ==
  /\ pc = "idle"
  /\ lastEvict # NoEvict
  /\ CacheLen = 2
  /\ Cardinality(DOMAIN cache) = 2

\* C10: Add's eviction loop stops once nbytes <= maxBytes or the store is
\* empty, for every capacity handed to New, so that Add returns.
C10_AddLoopStops ==
  (pc = "evict" /\ (nbytes <= maxBytes \/ CacheLen = 0)) => ~LoopCond

\* C11: a call of RemoveOldest on a non-empty store removes the entry accessed
\* longest ago and no other (the other entries keep their values and their
\* order), takes one off Len() and that entry's len(key) + value.Len() off
\* nbytes, and calls OnEvicted, when set, exactly once with that entry's key
\* and value; on an empty store it changes nothing and calls no callback.
C11_RemoveOldestExactlyOne ==
  [][CallRemoveOldest =>
       IF CacheLen = 0
         THEN /\ UNCHANGED <<ll, heap, cache, nbytes>>
              /\ evictedLog' = <<>>
         ELSE LET kv == heap[cache[Last(recency)]] IN
              /\ DOMAIN cache' = DOMAIN cache \ {kv.key}
              /\ \A k \in DOMAIN cache' : heap'[cache'[k]] = heap[cache[k]]
              /\ ll' = SubSeq(ll, 1, Len(ll) - 1)
              /\ Len(ll') = CacheLen - 1
              /\ nbytes' = nbytes - (Len(kv.key) + ValueLen(kv.value))
              /\ evictedLog' = IF OnEvicted THEN <<kv>> ELSE <<>>]_vars

\* C11 witness: a call of RemoveOldest on a store with a callback has removed
\* one entry of several and has called the callback once, with that entry.
C11_Witness ==
  /\ lastOp.op = "RemoveOldest"
  /\ OnEvicted
  /\ Len(evictedLog) = 1
  /\ evictedLog[1].key = lastEvict.key
  /\ CacheLen = 2

\* the call made last is an Add, on a store with maxBytes > 0, of an entry with
\* len(key) + value.Len() > maxBytes
Oversized ==
  /\ maxBytes > 0
  /\ lastOp.op = "Add"
  /\ Len(lastOp.key) + ValueLen(lastOp.value) > maxBytes

\* C14: on a store with maxBytes > 0, when an Add of an entry with
\* len(key) + value.Len() > maxBytes returns, its key is not present, in the
\* map or in the list, and a Get of that key that follows misses.
C14_OversizedPassThrough ==
  [][/\ (AddReturn /\ Oversized) =>
          /\ lastOp.key \notin DOMAIN cache'
          /\ \A i \in DOMAIN ll' : heap'[ll'[i]].key # lastOp.key
     /\ \A key \in Keys :
          (Get(key) /\ Oversized /\ lastOp.key = key) => ~lastOp'.ok]_vars

\* C14 witness: an Add of an entry larger than maxBytes, for a key that was
\* present when Add was called, has finished its loop and is about to return.
C14_Witness ==
  /\ pc = "evict"
  /\ ~LoopCond
  /\ Oversized
  /\ \E i \in DOMAIN addPre : addPre[i].key = lastOp.key

\* C16: on a store made with maxBytes = 0, in every state of a run of Add and
\* Get, no entry has been evicted and OnEvicted has not been called, Add's loop
\* is not about to evict, every key handed to Add so far is present, and Len()
\* is the number of distinct keys handed to Add.
C16_ZeroUnbounded ==
  maxBytes = 0 =>
    /\ evictedLog = <<>>
    /\ lastEvict = NoEvict
    /\ ~(pc = "evict" /\ LoopCond)
    /\ DOMAIN cache = DOMAIN added
    /\ CacheLen = Cardinality(DOMAIN added)

\* C16 witness: a store with maxBytes = 0 and a callback holds three keys and
\* more bytes than any capacity handed to New, after Adds and a Get.
C16_Witness ==
  /\ maxBytes = 0
  /\ OnEvicted
  /\ lastOp.op = "Get"
  /\ Cardinality(DOMAIN added) = 3
  /\ CacheLen = 3
  /\ nbytes > MaxCapacity

\* the key of the Add in progress was present when Add was called
AddOnPresentKey == \E i \in DOMAIN addPre : addPre[i].key = lastOp.key

\* C17: an Add(key, v) on a present key puts v in the entry of key, keeps the
\* map and the number of entries (no second entry for key), moves that entry
\* to the front with the others in their order and unchanged, changes nbytes
\* by v.Len() minus the old value's Len(), and calls OnEvicted neither then
\* nor later with the replaced value; a Get(key) that follows an Add(key, v)
\* returns v, or misses when Add's loop evicted the entry.
C17_AddUpdatesInPlace ==
  [][/\ \A key \in Keys, value \in Values :
          (AddBegin(key, value) /\ key \in DOMAIN cache) =>
            LET ele == cache[key] IN
            /\ heap'[ele] = [key |-> key, value |-> value]
            /\ \A e \in DOMAIN heap \ {ele} : heap'[e] = heap[e]
            /\ cache' = cache
            /\ Len(ll') = Len(ll)
            /\ Cardinality({i \in DOMAIN ll' : heap'[ll'[i]].key = key}) = 1
            /\ ll'[1] = ele
            /\ Without(ll', ele) = Without(ll, ele)
            /\ nbytes' = nbytes + ValueLen(value) - ValueLen(heap[ele].value)
            /\ evictedLog' = <<>>
     /\ (AddEvict /\ AddOnPresentKey) =>
          \A i \in DOMAIN evictedLog' :
            evictedLog'[i].key = lastOp.key => evictedLog'[i].value = lastOp.value
     /\ \A key \in Keys :
          (Get(key) /\ lastOp.op = "Add" /\ lastOp.key = key) =>
            \/ lastOp'.ok /\ lastOp'.value = lastOp.value
            \/ ~lastOp'.ok /\ lastEvict.key = key]_vars

\* C17 witness: Add has just replaced, by a value of another length, the value
\* of a key that was present and not at the front, with other entries present.
C17_Witness ==
  /\ pc = "evict"
  /\ lastEvict = NoEvict
  /\ Len(addPre) >= 2
  /\ addPre[1].key # lastOp.key
  /\ \E i \in DOMAIN addPre :
       /\ addPre[i].key = lastOp.key
       /\ ValueLen(addPre[i].value) # ValueLen(lastOp.value)
  /\ heap[ll[1]] = [key |-> lastOp.key, value |-> lastOp.value]

\* C18: a Get that misses returns found = false and leaves the list, the
\* entries, the map and nbytes as they were; a Get that hits returns the value
\* of the latest Add of the key, puts the key's element at the front with the
\* other elements in their order, and leaves the entries, the map, nbytes and
\* Len() as they were; neither calls OnEvicted.
C18_GetOnlyRecency ==
  [][\A key \in Keys :
       Get(key) =>
         /\ lastOp'.ok <=> key \in DOMAIN cache
         /\ ~lastOp'.ok => UNCHANGED <<ll, heap, cache, nbytes>>
         /\ lastOp'.ok =>
              /\ key \in DOMAIN added
              /\ lastOp'.value = added[key]
              /\ ll'[1] = cache[key]
              /\ Without(ll', cache[key]) = Without(ll, cache[key])
              /\ Len(ll') = CacheLen
              /\ UNCHANGED <<heap, cache, nbytes>>
         /\ evictedLog' = <<>>]_vars

\* C18 witness: a Get has hit, among three entries, the key inserted first,
\* which is now at the front.
C18_Witness ==
  /\ lastOp.op = "Get"
  /\ lastOp.ok
  /\ CacheLen = 3
  /\ lastOp.key = Head(insertOrder)
  /\ heap[ll[1]].key = lastOp.key
  /\ lastOp.value = added[lastOp.key]

\* a sequence, last element first
Reverse(s) == [i \in 1..Len(s) |-> s[Len(s) + 1 - i]]
\* the entries present when the Add in progress was called, other than the
\* entry of its key, front first
AddPreOthers == SelectSeq(addPre, LAMBDA kv : kv.key # lastOp.key)

\* C20: on a store with maxBytes > 0, when the loop of an Add of an entry with
\* len(key) + value.Len() > maxBytes has finished, and after Add has returned,
\* the store is empty with Len() = 0 and nbytes = 0; OnEvicted, when set, was
\* called once for each entry that was present at the call, from the back of
\* the list to its front, and last for the entry of the Add itself.
C20_OversizedEmpties ==
  (Oversized /\ (pc = "idle" \/ ~LoopCond)) =>
    /\ CacheLen = 0
    /\ DOMAIN cache = {}
    /\ nbytes = 0
    /\ (pc = "evict" /\ OnEvicted) =>
         evictedLog = Reverse(AddPreOthers)
                        \o <<[key |-> lastOp.key, value |-> lastOp.value]>>
    /\ ~OnEvicted => evictedLog = <<>>

\* C20 witness: an Add of an entry larger than maxBytes, on a store with a
\* callback and two entries, has finished its loop after three evictions.
C20_Witness ==
  /\ pc = "evict"
  /\ ~LoopCond
  /\ Oversized
  /\ OnEvicted
  /\ Len(addPre) = 2
  /\ Len(evictedLog) = 3
  /\ CacheLen = 0


\* ================================================================ claims, HTTPPool

\* C7: PickPeer returns found = false when the ring resolves the key to p.self
\* or to no node, and found = true only with the non-nil client that Set made
\* for the resolved remote node (baseURL = node + basePath).
C7_NeverSelf ==
  \A t \in Threads :
    (tpc[t] = "pp_unlock" /\ ~loc[t].panicked) =>
      LET node == RingGet(peers.ring, loc[t].key) IN
      /\ node \in {Self, <<>>} => (~loc[t].found /\ loc[t].client = NilGetter)
      /\ loc[t].found =>
           /\ node \notin {Self, <<>>}
           /\ ~loc[t].client.nil
           /\ loc[t].client.baseURL = node \o defultBasePath

\* C7 witness: the ring holds this node and a remote node, the key resolves
\* to this node, and PickPeer is about to return found = false.
C7_Witness ==
  \E t \in Threads :
    /\ tpc[t] = "pp_unlock"
    /\ ~loc[t].panicked
    /\ RingGet(peers.ring, loc[t].key) = Self
    /\ RingNodes(peers.ring) # {Self}
    /\ ~loc[t].found

\* C8: under any interleaving of Set and PickPeer, a PickPeer returning
\* found = true read the ring and the client map of one and the same Set
\* call, with all of that call's clients stored, and returns the client that
\* call made for the node.
C8_SetPickPeerAtomic ==
  \A t \in Threads :
    (tpc[t] = "pp_unlock" /\ loc[t].found) =>
      /\ loc[t].sawRing > 0
      /\ loc[t].sawMap = loc[t].sawRing
      /\ loc[t].sawFull
      /\ loc[t].client = NewGetter(loc[t].peer)

\* C8 witness: after two Set calls, a PickPeer is about to return a client
\* read from the ring and map of the second.
C8_Witness ==
  \E t \in Threads :
    /\ tpc[t] = "pp_unlock"
    /\ loc[t].found
    /\ loc[t].sawRing = 2
    /\ loc[t].sawMap = 2

\* C9: once a Set has returned and no call is inside the pool, the nodes of
\* the ring and the keys of the client map are exactly the addresses of the
\* Set that returned last; a PickPeer that took the lock after a Set
\* returned gives a client only for an address of that Set.
C9_SetReplaces ==
  /\ (mu = NoThread /\ lastDone.gen > 0) =>
       /\ RingNodes(peers.ring) = Range(lastDone.args)
       /\ DOMAIN httpGetters.m = Range(lastDone.args)
  /\ \A t \in Threads :
       (tpc[t] = "pp_unlock" /\ loc[t].found) =>
         /\ loc[t].doneAtLock.gen > 0
         /\ loc[t].peer \in Range(loc[t].doneAtLock.args)

\* C9 witness: Set(A...) and then Set(B...) have returned, B lacking an
\* address of A, and a PickPeer that started afterwards is about to return a
\* client.
C9_Witness ==
  \E t \in Threads :
    /\ tpc[t] = "pp_unlock"
    /\ loc[t].found
    /\ loc[t].doneAtLock.gen = 2
    /\ loc[t].doneAtLock.dropped

\* C15: on a pool on which Set has never been called, PickPeer returns
\* (nil, false) for every key, without failing, and the pool lock is free
\* once it has returned.
C15_NoPeersNotFound ==
  setCount = 0 =>
    /\ \A t \in Threads :
         tpc[t] = "pp_unlock" =>
           (~loc[t].panicked /\ ~loc[t].found /\ loc[t].client = NilGetter)
    /\ (\A t \in Threads : tpc[t] = "idle") => mu = NoThread

\* ================================================================ claims, ServeHTTP

\* what follows the base path in the request served last
ReqSuffix == SubSeq(req.path, Len(defultBasePath) + 1, Len(req.path))
\* the request served last is under the base path
ReqUnderBase == HasPrefix(req.path, defultBasePath)
\* GetGroup(name) at the time of the request served last
ReqGroup(name) == IF name \in DOMAIN req.groups THEN req.groups[name] ELSE NilGroup

\* C5: for a path basePath + groupName + "/" + key the handler looks up that
\* groupName and that key, answers 200 with the serialized value when the
\* group exists and group.Get(key) succeeds, and 404 when no such group
\* exists; it answers 400 only when fewer than two segments follow the prefix.
C5_StatusContract ==
  ReqUnderBase =>
    LET parts == SplitN(ReqSuffix) IN
    /\ Len(parts) = 2 =>
         LET group == ReqGroup(parts[1])
             got == GroupGet(group, parts[2])
         IN /\ resp.lookedGroup /\ resp.groupName = parts[1]
            /\ ~group.nil => (resp.lookedKey /\ resp.key = parts[2])
            /\ (~group.nil /\ got.err = <<>>) =>
                 /\ resp.w.status = StatusOK
                 /\ resp.w.body = <<Marshal(got.view.b)>>
            /\ group.nil => resp.w.status = StatusNotFound
    /\ resp.w.status = StatusBadRequest => Len(parts) < 2

\* C6: a request under the base path with fewer than two segments after it,
\* the bare base path included, is answered 400 and the handler does not fail.
C6_MalformedPath400 ==
  (ReqUnderBase /\ Len(SplitN(ReqSuffix)) < 2) =>
    (resp.w.status = StatusBadRequest /\ ~resp.panicked)

\* the error of group.Get in the request served last; <<>> when it gave none
\* or was not called
ReqLookupError ==
  IF resp.lookedKey THEN GroupGet(ReqGroup(resp.groupName), resp.key).err ELSE <<>>

\* C19: when group.Get returns an error the handler answers 500, writes the
\* error text as the only body and sets no Content-Type of a value: nothing is
\* serialized or written after the error.
C19_StopsAfterLookupError ==
  ReqLookupError # <<>> =>
    /\ resp.w.status = StatusInternalServerError
    /\ resp.w.body = <<ReqLookupError>>
    /\ resp.w.contentType # "application/octet-stream"

\* ================================================================ claims, ByteView

\* C12: whatever ByteSlice calls and writes to the returned slices were made,
\* the ByteView holds the bytes it was made of, Len(), String() and ByteSlice()
\* return them, and the slice ByteSlice returns has an array of its own: not
\* the array of the internal buffer and not that of an earlier result.
C12_ByteViewImmutable ==
  /\ bvMem[bv.b] = bvHeld
  /\ bvLast.op = "Len" => bvLast.len = Len(bvHeld)
  /\ bvLast.op = "String" => bvLast.str = StringOf(bvHeld)
  /\ bvLast.op = "ByteSlice" => bvLast.slice = bvHeld
  /\ \A i \in DOMAIN bvResults :
       /\ bvResults[i] # bv.b
       /\ \A j \in DOMAIN bvResults : i # j => bvResults[i] # bvResults[j]

\* C12 witness: a reader has overwritten every byte of the first slice it got,
\* and a later ByteSlice has just returned.
C12_Witness ==
  /\ Len(bvResults) = 2
  /\ Len(bvHeld) = 2
  /\ \A j \in DOMAIN bvHeld : bvMem[bvResults[1]][j] # bvHeld[j]
  /\ bvLast.op = "ByteSlice"

\* ================================================================ claims, httpGetter

\* the body the network gave decodes into a message
Decodes(body) == \E value \in {<<>>, <<1>>} : body = Marshal(value)

\* C13: Get returns a nil error exactly when http.Get succeeded, the status
\* was 200, the body was read to its end and decoded, and then out holds the
\* decoded message; a transport error, a status other than 200, a body read
\* error and a decode error each give a non-nil error.
C13_GetNilOnlyOnSuccess ==
  getRet.called =>
    /\ getRet.err.nil <=>
         (~getNet.err /\ getNet.status = StatusOK /\ ~getNet.readErr
            /\ Decodes(getNet.body))
    /\ getRet.err.nil => Marshal(getOut) = getNet.body
    /\ getNet.err => ~getRet.err.nil
    /\ (~getNet.err /\ getNet.status # StatusOK) => ~getRet.err.nil
    /\ (~getNet.err /\ getNet.readErr) => ~getRet.err.nil
    /\ (~getNet.err /\ ~Decodes(getNet.body)) => ~getRet.err.nil

\* C13 witness: a response with a status other than 200 carried a body that
\* could be read and decoded, and Get returned an error.
C13_Witness ==
  /\ getRet.called
  /\ ~getNet.err
  /\ getNet.status = StatusInternalServerError
  /\ ~getNet.readErr
  /\ Decodes(getNet.body)
  /\ ~getRet.err.nil

=============================================================================
